---------------------------- MODULE Spec2Model ----------------------------
(***************************************************************************)
(* Model of flowy-user/src/event_handler.rs: the event handlers that sit   *)
(* between the dispatcher and the UserSession (session manager) and the    *)
(* KV store.  Every handler runs as an independent asynchronous task; the  *)
(* tasks of NProcs dispatcher slots interleave at the handlers' calls.     *)
(***************************************************************************)
EXTENDS Integers, Sequences, FiniteSets, TLC

\* ------------------------------------------------------------------ bounds
\* Number of handler tasks that can be in flight at the same time.
NProcs == 2
\* Total number of requests the dispatcher hands to the handlers in one run.
MaxReqs == 2
\* Total number of appearance-setting requests in one run.
MaxSettingReqs == 3
\* Total number of supabase-config requests in one run.
MaxConfigReqs == 3

Procs == 1..NProcs

\* ------------------------------------------------------------- value sets
None == <<"None">>
NoSession == "NoSession"

\* AuthTypePB tags as they arrive in a payload, and the AuthType they select.
AuthTypePBs == {0, 1, 2}
AuthTypes == {<<"Local">>, <<"SelfHosted">>, <<"ThirdParty", "X">>}

\* `impl From<AuthTypePB> for AuthType` (used by `.into()` at line 142 and
\* inside the try_into conversions): infallible, tag by tag.
AuthTypeFromPB(tag) ==
  CASE tag = 0 -> <<"Local">>
    [] tag = 1 -> <<"SelfHosted">>
    [] OTHER   -> <<"ThirdParty", "X">>

\* Raw e-mail fields: missing, malformed (nothing before '@'), well-formed.
Emails == {<<>>, <<"@", "x">>, <<"a", "@", "x">>}

\* Provider maps of a third-party payload; their shape is provider-defined,
\* the empty map included.
ProviderMaps == {<<>>, <<<<"token", "t1">>>>}

\* Errors a UserSession call can return, and the two local ones.
SessionErrors == {"AuthError", "StorageError"}
ValidationError == "ValidationError"
NoActiveSessionError == "NoActiveSession"

Ok(v) == [ok |-> TRUE, val |-> v]
Err(e) == [ok |-> FALSE, val |-> e]
Unit == <<>>

\* ------------------------------------------------------ parameter validator
\* An e-mail is well formed when it has a '@' with text on both sides.
EmailWellFormed(email) ==
  \E i \in 1..Len(email) : email[i] = "@" /\ 1 < i /\ i < Len(email)

\* TryInto<SignInParams> for SignInPayloadPB: fails atomically on a malformed
\* payload, otherwise yields the params record with its AuthType.
SignInParamsTryFrom(payload) ==
  IF EmailWellFormed(payload.email)
    THEN Ok([email |-> payload.email, auth_type |-> AuthTypeFromPB(payload.auth_type)])
    ELSE Err(ValidationError)

\* TryInto<SignUpParams> for SignUpPayloadPB.
SignUpParamsTryFrom(payload) ==
  IF EmailWellFormed(payload.email)
    THEN Ok([email |-> payload.email, auth_type |-> AuthTypeFromPB(payload.auth_type)])
    ELSE Err(ValidationError)

\* TryInto<UpdateUserProfileParams> for UpdateUserProfilePayloadPB.
UpdateUserProfileParamsTryFrom(payload) ==
  IF EmailWellFormed(payload.email)
    THEN Ok([email |-> payload.email])
    ELSE Err(ValidationError)

\* The user a well-formed e-mail belongs to.
UserIdOf(email) == email[1]

\* From<UserProfile> for UserProfilePB: the AuthType goes back to its tag.
AuthTypeToPB(at) ==
  CASE at = <<"Local">> -> 0
    [] at = <<"SelfHosted">> -> 1
    [] OTHER -> 2

UserProfilePBFrom(profile) ==
  [id |-> profile.id, auth_type |-> AuthTypeToPB(profile.auth_type)]

\* ------------------------------------------------------- appearance settings
\* AppearanceSettingsPB: a theme and a font.  APPEARANCE_DEFAULT_THEME and
\* AppearanceSettingsPB::default().
APPEARANCE_DEFAULT_THEME == "light"
Themes == {"", "light", "dark"}
Fonts == {"Poppins", "Arial"}
AppearanceSettings == [theme : Themes, font : Fonts]
AppearanceSettingsDefault == [theme |-> APPEARANCE_DEFAULT_THEME, font |-> "Poppins"]

\* serde_json::to_string as KV::set_object applies it: the record becomes a
\* JSON text, here its token sequence.
ToJson(setting) == <<"{", "theme", setting.theme, "font", setting.font, "}">>

\* serde_json::from_str: the record of a well-formed text, an error otherwise.
FromJson(text) ==
  IF /\ Len(text) = 6
     /\ text[1] = "{" /\ text[2] = "theme" /\ text[4] = "font" /\ text[6] = "}"
     /\ text[3] \in Themes /\ text[5] \in Fonts
    THEN Ok([theme |-> text[3], font |-> text[5]])
    ELSE Err("SerdeError")

\* A text that is not the JSON of a settings record (a truncated write, an
\* older format), as it can sit under the key from an earlier run.
InvalidBlob == <<"{", "theme">>

\* ---------------------------------------------------- provider configuration
\* SupabaseConfigPB as it arrives: a url and a key, either possibly empty.
SupabaseConfigPBs == [supabase_url : {"", "u1", "u2"}, key : {"", "k"}]

\* SupabaseConfiguration::try_from(SupabaseConfigPB): an empty field is a
\* malformed input.
SupabaseConfigurationTryFrom(pb) ==
  IF pb.supabase_url # "" /\ pb.key # ""
    THEN Ok([url |-> pb.supabase_url, anon_key |-> pb.key])
    ELSE Err(ValidationError)

\* SupabaseConfiguration::default() and From<SupabaseConfiguration> for
\* SupabaseConfigPB.
SupabaseConfigurationDefault == [url |-> "", anon_key |-> ""]
SupabaseConfigPBFrom(config) == [supabase_url |-> config.url, key |-> config.anon_key]

\* The text save_supabase_config persists for a configuration, and a stored
\* text that is not one.
ConfigToText(config) == <<"url", config.url, "key", config.anon_key>>
InvalidConfigText == <<"url">>

\* ------------------------------------------------------------------- state
VARIABLES
  pc,          \* pc[p]: where task p stands in its handler
  req,         \* req[p]: the request task p serves: [op, payload]
  loc,         \* loc[p]: the handler's local values (params, auth_type, setting, blob)
  calls,       \* calls[p]: the calls task p's current request made, in order
  result,      \* result[p]: what the handler returned to the dispatcher
  auth_type,   \* UserSession: the active auth type
  cur_session, \* UserSession: the user id of the active session, or NoSession
  kv,          \* KV: the string stored under APPEARANCE_SETTING_CACHE_KEY, or None
  nreq,        \* number of requests dispatched so far
  lastSet,     \* history: the record handed to the set_appearance_setting whose
               \* store came last, or None
  written,     \* history: the records handed to the set_appearance_setting
               \* requests whose store succeeded
  supabase_config, \* the provider configuration text persisted by
               \* save_supabase_config, or None
  lastUpdate  \* history: the task slot and the payload's auth-type tag of the
              \* latest update_auth_type call, NoUpdate before the first

kvstate == <<kv, lastSet, written, supabase_config>>
\* nreq and pc come first: every step changes one of them.
vars == <<nreq, pc, req, loc, calls, result, auth_type, cur_session, kv, lastSet, written,
          supabase_config, lastUpdate>>

NoReq == [op |-> "none", payload |-> None]

\* No update_auth_type call was made yet.
NoUpdate == [slot |-> 0, tag |-> 0]

\* The auth type a fresh session starts with.
InitAuthType == <<"Local">>

Init ==
  /\ pc = [p \in Procs |-> "idle"]
  /\ req = [p \in Procs |-> NoReq]
  /\ loc = [p \in Procs |-> None]
  /\ calls = [p \in Procs |-> <<>>]
  /\ result = [p \in Procs |-> None]
  /\ auth_type = InitAuthType
  /\ cur_session = NoSession
  /\ kv \in {None, InvalidBlob}
  /\ nreq = 0
  /\ lastSet = None
  /\ written = {}
  \* a store left by an earlier run holds stale texts under both keys
  /\ supabase_config = IF kv = None THEN None ELSE InvalidConfigText
  /\ lastUpdate = NoUpdate

\* A task slot is free when it serves no request: before its first request
\* and after its handler returned or was dropped.  The dispatcher gives a
\* new request the lowest free slot (the slots are interchangeable).
Free(p) == pc[p] \in {"idle", "done", "abandoned"}
CanDispatch(p) ==
  /\ Free(p)
  /\ \A q \in Procs : q < p => ~Free(q)
  /\ nreq < MaxReqs
CanDispatchSetting(p) ==
  /\ Free(p)
  /\ \A q \in Procs : q < p => ~Free(q)
  /\ nreq < MaxSettingReqs
CanDispatchConfig(p) ==
  /\ Free(p)
  /\ \A q \in Procs : q < p => ~Free(q)
  /\ nreq < MaxConfigReqs

\* One call on the session as a mock would record it: its name, its
\* arguments and what it returned.
Call(name, args, res) == [name |-> name, args |-> args, res |-> res]

\* The dispatcher hands request [op, payload] to task p, whose handler runs
\* up to pc value `at` making the calls cs and holding the locals l.
Begin(p, op, payload, at, l, cs, res) ==
  /\ pc' = [pc EXCEPT ![p] = at]
  /\ req' = [req EXCEPT ![p] = [op |-> op, payload |-> payload]]
  /\ loc' = [loc EXCEPT ![p] = l]
  /\ calls' = [calls EXCEPT ![p] = cs]
  /\ result' = [result EXCEPT ![p] = res]
  /\ nreq' = nreq + 1


\* ------------------------------------------- UserSession (session manager)
\* What a session call may return: success with value v, or any session error.
Outcomes(v) == {Ok(v)} \cup {Err(e) : e \in SessionErrors}
Failures == {Err(e) : e \in SessionErrors}

\* UserSession::sign_in(params, auth_type): credentials accepted or rejected.
SessionSignIn(params, at) ==
  Outcomes([id |-> UserIdOf(params.email), auth_type |-> at])

\* UserSession::sign_up(auth_type, params) with a SignUpParams record.
SessionSignUp(at, params) ==
  Outcomes([id |-> UserIdOf(params.email), auth_type |-> at])

\* UserSession::sign_up(auth_type, map) on the third-party path: the raw
\* provider map is interpreted by the session manager alone, which rejects
\* an empty one.
SessionSignUpMap(at, map) ==
  IF map = <<>> THEN Failures ELSE Outcomes([id |-> "b", auth_type |-> at])

\* UserSession::get_session(): fails when there is no active session.
SessionGetSession ==
  IF cur_session = NoSession THEN Err(NoActiveSessionError)
  ELSE Ok([user_id |-> cur_session])

\* UserSession::get_user_profile(uid, refresh).
SessionGetUserProfile(uid, refresh) ==
  Outcomes([id |-> uid, auth_type |-> auth_type])

\* The session after a successful sign_in / sign_up, and after sign_out.
SessionEstablished(res) == IF res.ok THEN res.val.id ELSE cur_session
SessionClosed(res) == IF res.ok THEN NoSession ELSE cur_session

\* ------------------------------------------------------- handler fragments
\* Mutant of TryIntoFailed: the auth type is propagated before the payload
\* is converted, so a rejected payload has already reached the session.
TryIntoFailedAfterUpdate(p, op, payload, conv) ==
  /\ Begin(p, op, payload, "done", None,
           IF op = "update_user_profile" THEN <<Call("update_user_profile", payload, conv)>>
           ELSE <<Call("update_auth_type", AuthTypeFromPB(payload.auth_type), Ok(Unit))>>,
           conv)
  /\ auth_type' = IF op = "update_user_profile" THEN auth_type
                  ELSE AuthTypeFromPB(payload.auth_type)
  /\ lastUpdate' = IF op = "update_user_profile" THEN lastUpdate
                   ELSE [slot |-> p, tag |-> payload.auth_type]
  /\ UNCHANGED <<cur_session, kvstate>>

\* `?` on a failed try_into (lines 19, 44, 86): the handler returns the
\* conversion's error at once; nothing was called, nothing is touched.
TryIntoFailed(p, op, payload, conv) ==
  /\ Begin(p, op, payload, "done", None, <<>>, conv)
  /\ UNCHANGED <<auth_type, lastUpdate, cur_session, kvstate>>

\* Mutant of PropagateAuthType: the update is spawned and not awaited, the
\* handler goes on to its sign_in / sign_up without it.
PropagateAuthTypeNotAwaited(p, op, payload, at, params, next) ==
  /\ Begin(p, op, payload, next, [params |-> params, auth_type |-> at], <<>>, None)
  /\ UNCHANGED <<auth_type, lastUpdate, cur_session, kvstate>>

\* `let auth_type = ...; session.update_auth_type(&auth_type).await;`
\* (lines 20-21, 45-46, 142-143): the active auth type of the shared session
\* becomes the request's, and the task stands before its sign_in / sign_up.
PropagateAuthType(p, op, payload, at, params, next) ==
  /\ auth_type' = at
  /\ lastUpdate' = [slot |-> p, tag |-> payload.auth_type]
  /\ Begin(p, op, payload, next, [params |-> params, auth_type |-> at],
           <<Call("update_auth_type", at, Ok(Unit))>>, None)
  /\ UNCHANGED <<cur_session, kvstate>>

\* Mutant of ReturnProfile: a failed call is issued a second time and the
\* handler answers with a generic error.
ReturnProfileRetrying(p, name, args, res) ==
  /\ calls' = [calls EXCEPT ![p] =
                IF res.ok THEN Append(@, Call(name, args, res))
                ELSE Append(Append(@, Call(name, args, res)), Call(name, args, res))]
  /\ result' = [result EXCEPT ![p] =
                 IF res.ok THEN Ok(UserProfilePBFrom(res.val)) ELSE Err("Internal")]
  /\ pc' = [pc EXCEPT ![p] = "done"]
  /\ cur_session' = SessionEstablished(res)
  /\ UNCHANGED <<req, loc, auth_type, lastUpdate, kvstate, nreq>>

\* Mutant of ReturnProfile: a failed call puts the active auth type back to
\* the one a fresh session starts with.
ReturnProfileRollingBack(p, name, args, res) ==
  /\ calls' = [calls EXCEPT ![p] = Append(@, Call(name, args, res))]
  /\ result' = [result EXCEPT ![p] =
                 IF res.ok THEN Ok(UserProfilePBFrom(res.val)) ELSE res]
  /\ pc' = [pc EXCEPT ![p] = "done"]
  /\ cur_session' = SessionEstablished(res)
  /\ auth_type' = IF res.ok THEN auth_type ELSE InitAuthType
  /\ UNCHANGED <<req, loc, lastUpdate, kvstate, nreq>>

\* `session.X(...).await?` followed by the return (lines 23-27, 48-49,
\* 144-145): the call's error is returned as it is, its profile reshaped.
ReturnProfile(p, name, args, res) ==
  /\ calls' = [calls EXCEPT ![p] = Append(@, Call(name, args, res))]
  /\ result' = [result EXCEPT ![p] =
                 IF res.ok THEN Ok(UserProfilePBFrom(res.val)) ELSE res]
  /\ pc' = [pc EXCEPT ![p] = "done"]
  /\ cur_session' = SessionEstablished(res)
  /\ UNCHANGED <<req, loc, auth_type, lastUpdate, kvstate, nreq>>

\* A handler that makes one fallible session call and returns unit or the
\* call's error (init_user, check_user, sign_out, update_user_profile).
OneCall(p, op, payload, name, args, res, value) ==
  Begin(p, op, payload, "done", None, <<Call(name, args, res)>>,
        IF res.ok THEN Ok(value) ELSE res)

\* ---------------------------------------------------------------- handlers
SignInPayloads == [email : Emails, auth_type : AuthTypePBs]
SignUpPayloads == [email : Emails, auth_type : AuthTypePBs]
UpdatePayloads == [email : Emails]
ThirdPartyPayloads == [auth_type : AuthTypePBs, map : ProviderMaps]

\* sign_in, lines 19-21.
sign_in(p, payload) ==
  /\ CanDispatch(p)
  /\ LET params == SignInParamsTryFrom(payload) IN
       IF ~params.ok
         THEN TryIntoFailed(p, "sign_in", payload, params)
         ELSE PropagateAuthType(p, "sign_in", payload, params.val.auth_type,
                                params.val, "sign_in_call")

\* Mutant of sign_in_call: the call is given the session's active auth type
\* as it stands when the call is made, not the handler's own local.
sign_in_call_active(p) ==
  /\ pc[p] = "sign_in_call"
  /\ \E res \in SessionSignIn(loc[p].params, auth_type) :
       ReturnProfile(p, "sign_in", <<loc[p].params, auth_type>>, res)

\* sign_in, lines 23-27.
sign_in_call(p) ==
  /\ pc[p] = "sign_in_call"
  /\ \E res \in SessionSignIn(loc[p].params, loc[p].auth_type) :
       ReturnProfile(p, "sign_in", <<loc[p].params, loc[p].auth_type>>, res)

\* sign_up, lines 44-46.
sign_up(p, payload) ==
  /\ CanDispatch(p)
  /\ LET params == SignUpParamsTryFrom(payload) IN
       IF ~params.ok
         THEN TryIntoFailed(p, "sign_up", payload, params)
         ELSE PropagateAuthType(p, "sign_up", payload, params.val.auth_type,
                                params.val, "sign_up_call")

\* sign_up, lines 48-49.
sign_up_call(p) ==
  /\ pc[p] = "sign_up_call"
  /\ \E res \in SessionSignUp(loc[p].auth_type, loc[p].params) :
       ReturnProfile(p, "sign_up", <<loc[p].auth_type, loc[p].params>>, res)

\* Mutant of third_party_auth_handler: the provider map is validated and
\* an empty one rejected before anything is called.
third_party_auth_validating(p, payload) ==
  /\ CanDispatch(p)
  /\ IF payload.map = <<>>
       THEN TryIntoFailed(p, "third_party_auth", payload, Err(ValidationError))
       ELSE PropagateAuthType(p, "third_party_auth", payload,
                              AuthTypeFromPB(payload.auth_type), payload.map,
                              "third_party_call")

\* third_party_auth_handler, lines 141-143: no conversion that can fail.
third_party_auth_handler(p, payload) ==
  /\ CanDispatch(p)
  /\ PropagateAuthType(p, "third_party_auth", payload,
                       AuthTypeFromPB(payload.auth_type), payload.map,
                       "third_party_call")

\* third_party_auth_handler, lines 144-145.
third_party_call(p) ==
  /\ pc[p] = "third_party_call"
  /\ \E res \in SessionSignUpMap(loc[p].auth_type, loc[p].params) :
       ReturnProfile(p, "sign_up", <<loc[p].auth_type, loc[p].params>>, res)

\* init_user_handler, lines 53-56.
init_user_handler(p) ==
  /\ CanDispatch(p)
  /\ \E res \in Outcomes(Unit) :
       OneCall(p, "init_user", None, "init_user", <<>>, res, Unit)
  /\ UNCHANGED <<auth_type, lastUpdate, cur_session, kvstate>>

\* check_user_handler, lines 59-64: an absent session is an invalid one.
check_user_handler(p) ==
  /\ CanDispatch(p)
  /\ \E res \in (IF cur_session = NoSession THEN Failures ELSE Outcomes(Unit)) :
       OneCall(p, "check_user", None, "check_user", <<>>, res, Unit)
  /\ UNCHANGED <<auth_type, lastUpdate, cur_session, kvstate>>

\* Mutant of get_user_profile_handler: a failed get_session falls back to
\* user "a" instead of returning.
get_user_profile_handler_or_default(p) ==
  /\ CanDispatch(p)
  /\ LET s == SessionGetSession
         uid == IF s.ok THEN s.val.user_id ELSE "a" IN
       \E res \in SessionGetUserProfile(uid, TRUE) :
         Begin(p, "get_user_profile", None, "done", None,
               <<Call("get_session", <<>>, s),
                 Call("get_user_profile", <<uid, TRUE>>, res)>>,
               IF res.ok THEN Ok(UserProfilePBFrom(res.val)) ELSE res)
  /\ UNCHANGED <<auth_type, lastUpdate, cur_session, kvstate>>

\* Mutant of get_user_profile_handler: the profile is asked for without a
\* refresh and for the user of the request's own earlier sign-in ("a").
get_user_profile_handler_cached(p) ==
  /\ CanDispatch(p)
  /\ LET s == SessionGetSession
         first == Call("get_session", <<>>, s) IN
       IF ~s.ok
         THEN Begin(p, "get_user_profile", None, "done", None, <<first>>, s)
         ELSE \E res \in SessionGetUserProfile("a", FALSE) :
                Begin(p, "get_user_profile", None, "done", None,
                      <<first, Call("get_user_profile", <<"a", FALSE>>, res)>>,
                      IF res.ok THEN Ok(UserProfilePBFrom(res.val)) ELSE res)
  /\ UNCHANGED <<auth_type, lastUpdate, cur_session, kvstate>>

\* get_user_profile_handler, lines 67-73: `get_session()?` returns early.
get_user_profile_handler(p) ==
  /\ CanDispatch(p)
  /\ LET s == SessionGetSession
         first == Call("get_session", <<>>, s) IN
       IF ~s.ok
         THEN Begin(p, "get_user_profile", None, "done", None, <<first>>, s)
         ELSE \E res \in SessionGetUserProfile(s.val.user_id, TRUE) :
                Begin(p, "get_user_profile", None, "done", None,
                      <<first, Call("get_user_profile", <<s.val.user_id, TRUE>>, res)>>,
                      IF res.ok THEN Ok(UserProfilePBFrom(res.val)) ELSE res)
  /\ UNCHANGED <<auth_type, lastUpdate, cur_session, kvstate>>

\* Mutant of sign_out: signing out puts the active auth type back to the
\* one a fresh session starts with.
sign_out_resetting(p) ==
  /\ CanDispatch(p)
  /\ \E res \in Outcomes(Unit) :
       /\ OneCall(p, "sign_out", None, "sign_out", <<>>, res, Unit)
       /\ cur_session' = SessionClosed(res)
  /\ auth_type' = InitAuthType
  /\ UNCHANGED <<lastUpdate, kvstate>>

\* sign_out, lines 76-79.
sign_out(p) ==
  /\ CanDispatch(p)
  /\ \E res \in Outcomes(Unit) :
       /\ OneCall(p, "sign_out", None, "sign_out", <<>>, res, Unit)
       /\ cur_session' = SessionClosed(res)
  /\ UNCHANGED <<auth_type, lastUpdate, kvstate>>

\* update_user_profile_handler, lines 86-88.
update_user_profile_handler(p, payload) ==
  /\ CanDispatch(p)
  /\ LET params == UpdateUserProfileParamsTryFrom(payload) IN
       IF ~params.ok
         THEN TryIntoFailed(p, "update_user_profile", payload, params)
         ELSE /\ \E res \in Outcomes(Unit) :
                   OneCall(p, "update_user_profile", payload,
                           "update_user_profile", params.val, res, Unit)
              /\ UNCHANGED <<auth_type, lastUpdate, cur_session, kvstate>>

\* get_user_setting, lines 127-132.
get_user_setting(p) ==
  /\ CanDispatch(p)
  /\ \E res \in (IF cur_session = NoSession THEN Failures
                 ELSE Outcomes([user_id |-> cur_session])) :
       OneCall(p, "get_user_setting", None, "user_setting", <<>>, res, res.val)
  /\ UNCHANGED <<auth_type, lastUpdate, cur_session, kvstate>>

\* The caller drops a handler's future while it is suspended between its
\* update_auth_type and its sign_in / sign_up: the task goes away, nothing
\* is undone.
Abandon(p) ==
  /\ pc[p] \in {"sign_in_call", "sign_up_call", "third_party_call"}
  /\ pc' = [pc EXCEPT ![p] = "abandoned"]
  /\ UNCHANGED <<req, loc, calls, result, auth_type, lastUpdate, cur_session, kvstate, nreq>>

Next ==
  \E p \in Procs :
    \/ \E payload \in SignInPayloads : sign_in(p, payload)
    \/ sign_in_call(p)
    \/ \E payload \in SignUpPayloads : sign_up(p, payload)
    \/ sign_up_call(p)
    \/ \E payload \in ThirdPartyPayloads : third_party_auth_handler(p, payload)
    \/ third_party_call(p)
    \/ init_user_handler(p)
    \/ check_user_handler(p)
    \/ get_user_profile_handler(p)
    \/ sign_out(p)
    \/ \E payload \in UpdatePayloads : update_user_profile_handler(p, payload)
    \/ get_user_setting(p)
    \/ Abandon(p)

Spec == Init /\ [][Next]_vars

\* ------------------------------------------------- appearance-setting handlers
\* Mutant of NormalizeTheme: the record is stored as it came.
NormalizeThemeSkipped(setting) == setting

\* set_appearance_setting, lines 97-100: an empty theme becomes the default
\* theme, the rest of the record is kept.
NormalizeTheme(setting) ==
  IF setting.theme = ""
    THEN [setting EXCEPT !.theme = APPEARANCE_DEFAULT_THEME]
    ELSE setting

\* Mutant of SetObjectValue: only the theme is written, the font is taken
\* from the record read back from the store.
SetObjectValueMerged(p) ==
  IF kv # None /\ FromJson(kv).ok
    THEN [loc[p] EXCEPT !.font = FromJson(kv).val.font]
    ELSE loc[p]

\* Line 102: the value handed to KV::set_object is the whole record.
SetObjectValue(p) == loc[p]

\* Mutant of GetAppearanceResult: the parse error is returned with `?`.
GetAppearanceResultPropagating(s) ==
  IF s = None THEN Ok(AppearanceSettingsDefault) ELSE FromJson(s)

\* get_appearance_setting, lines 108-123: the match on KV::get_str and on
\* serde_json::from_str.
GetAppearanceResult(s) ==
  IF s = None THEN Ok(AppearanceSettingsDefault)
  ELSE LET parsed == FromJson(s) IN
         IF parsed.ok THEN Ok(parsed.val) ELSE Ok(AppearanceSettingsDefault)

\* Mutant of SetObjectReturn: the store's result is dropped (`let _ = ...`).
SetObjectReturnIgnored(res) == Ok(Unit)

\* Lines 102-103: `KV::set_object(...)?; Ok(())`.
SetObjectReturn(res) == IF res.ok THEN Ok(Unit) ELSE res

\* set_appearance_setting, lines 97-100.
set_appearance_setting(p, setting) ==
  /\ CanDispatchSetting(p)
  /\ Begin(p, "set_appearance_setting", setting, "set_object",
           NormalizeTheme(setting), <<>>, None)
  /\ UNCHANGED <<auth_type, lastUpdate, cur_session, kvstate>>

\* set_appearance_setting, lines 102-103: KV::set_object replaces the text
\* under the key in one step, or fails and leaves it; `?` returns the failure.
set_object(p) ==
  /\ pc[p] = "set_object"
  /\ pc' = [pc EXCEPT ![p] = "done"]
  /\ \/ /\ kv' = ToJson(SetObjectValue(p))
        /\ lastSet' = req[p].payload
        /\ written' = written \cup {req[p].payload}
        /\ calls' = [calls EXCEPT ![p] = Append(@, Call("set_object", SetObjectValue(p), Ok(Unit)))]
        /\ result' = [result EXCEPT ![p] = SetObjectReturn(Ok(Unit))]
        /\ UNCHANGED supabase_config
     \/ /\ calls' = [calls EXCEPT ![p] =
                      Append(@, Call("set_object", SetObjectValue(p), Err("StorageError")))]
        /\ result' = [result EXCEPT ![p] = SetObjectReturn(Err("StorageError"))]
        /\ UNCHANGED kvstate
  /\ UNCHANGED <<req, loc, auth_type, lastUpdate, cur_session, nreq>>

\* get_appearance_setting, line 108: KV::get_str reads the text under the key.
get_appearance_setting(p) ==
  /\ CanDispatchSetting(p)
  /\ Begin(p, "get_appearance_setting", None, "from_str", kv, <<>>, None)
  /\ UNCHANGED <<auth_type, lastUpdate, cur_session, kvstate>>

\* Mutant of from_str: a text that does not deserialize is repaired, the
\* default record is written over it.
from_str_repairing(p) ==
  /\ pc[p] = "from_str"
  /\ pc' = [pc EXCEPT ![p] = "done"]
  /\ result' = [result EXCEPT ![p] = GetAppearanceResult(loc[p])]
  /\ kv' = IF loc[p] # None /\ ~FromJson(loc[p]).ok
             THEN ToJson(AppearanceSettingsDefault) ELSE kv
  /\ UNCHANGED <<req, loc, calls, auth_type, lastUpdate, cur_session, lastSet, written,
                 supabase_config, nreq>>

\* get_appearance_setting, lines 109-123.
from_str(p) ==
  /\ pc[p] = "from_str"
  /\ pc' = [pc EXCEPT ![p] = "done"]
  /\ result' = [result EXCEPT ![p] = GetAppearanceResult(loc[p])]
  /\ UNCHANGED <<req, loc, calls, auth_type, lastUpdate, cur_session, kvstate, nreq>>

NextSettings ==
  \E p \in Procs :
    \/ \E setting \in AppearanceSettings : set_appearance_setting(p, setting)
    \/ set_object(p)
    \/ get_appearance_setting(p)
    \/ from_str(p)

\* The appearance-setting handlers touch only the KV store and the session
\* handlers only the session, so each group is explored on its own.
SpecSettings == Init /\ [][NextSettings]_vars

\* ---------------------------------------------------- supabase-config handlers
\* get_supabase_config(): the stored configuration, or None when nothing is
\* stored or the stored text is not a configuration.
GetSupabaseConfig(text) ==
  IF /\ text # None /\ Len(text) = 4
     /\ text[1] = "url" /\ text[3] = "key"
    THEN Ok([url |-> text[2], anon_key |-> text[4]])
    ELSE Err("None")

\* Mutant of UnwrapOrDefault: an unreadable configuration is an error.
UnwrapOrError(opt) ==
  IF opt.ok THEN Ok(SupabaseConfigPBFrom(opt.val)) ELSE Err("StorageError")

\* Lines 162-163: `.unwrap_or_default()`, `config.into()`, data_result_ok.
UnwrapOrDefault(opt) ==
  Ok(SupabaseConfigPBFrom(IF opt.ok THEN opt.val ELSE SupabaseConfigurationDefault))

\* Mutant of set_supabase_config_handler: the conversion's error is dropped
\* and the default configuration saved in its place.
set_supabase_config_handler_or_default(p, payload) ==
  /\ CanDispatchConfig(p)
  /\ LET conv == SupabaseConfigurationTryFrom(payload) IN
       Begin(p, "set_supabase_config", payload, "save_supabase_config",
             IF conv.ok THEN conv.val ELSE SupabaseConfigurationDefault, <<>>, None)
  /\ UNCHANGED <<auth_type, lastUpdate, cur_session, kvstate>>

\* set_supabase_config_handler, line 153.
set_supabase_config_handler(p, payload) ==
  /\ CanDispatchConfig(p)
  /\ LET conv == SupabaseConfigurationTryFrom(payload) IN
       IF ~conv.ok
         THEN TryIntoFailed(p, "set_supabase_config", payload, conv)
         ELSE /\ Begin(p, "set_supabase_config", payload, "save_supabase_config",
                       conv.val, <<>>, None)
              /\ UNCHANGED <<auth_type, lastUpdate, cur_session, kvstate>>

\* set_supabase_config_handler, lines 154-155: save_supabase_config returns
\* nothing and the handler answers Ok(()).
save_supabase_config(p) ==
  /\ pc[p] = "save_supabase_config"
  /\ pc' = [pc EXCEPT ![p] = "done"]
  /\ calls' = [calls EXCEPT ![p] = Append(@, Call("save_supabase_config", loc[p], Ok(Unit)))]
  /\ supabase_config' = ConfigToText(loc[p])
  /\ result' = [result EXCEPT ![p] = Ok(Unit)]
  /\ UNCHANGED <<req, loc, auth_type, lastUpdate, cur_session, kv, lastSet, written, nreq>>

\* get_supabase_config_handler, line 162: get_supabase_config() reads the
\* persisted text.
get_supabase_config_handler(p) ==
  /\ CanDispatchConfig(p)
  /\ Begin(p, "get_supabase_config", None, "config_into", supabase_config, <<>>, None)
  /\ UNCHANGED <<auth_type, lastUpdate, cur_session, kvstate>>

\* get_supabase_config_handler, lines 162-163.
config_into(p) ==
  /\ pc[p] = "config_into"
  /\ pc' = [pc EXCEPT ![p] = "done"]
  /\ result' = [result EXCEPT ![p] = UnwrapOrDefault(GetSupabaseConfig(loc[p]))]
  /\ UNCHANGED <<req, loc, calls, auth_type, lastUpdate, cur_session, kvstate, nreq>>

NextConfig ==
  \E p \in Procs :
    \/ \E payload \in SupabaseConfigPBs : set_supabase_config_handler(p, payload)
    \/ save_supabase_config(p)
    \/ get_supabase_config_handler(p)
    \/ config_into(p)

\* The supabase-config handlers touch only the persisted configuration.
SpecConfig == Init /\ [][NextConfig]_vars

\* ------------------------------------------------ handlers of stored state
\* The appearance-setting and supabase-config handlers together: the
\* handlers that read or write persisted state.
NextStore == NextSettings \/ NextConfig

SpecStore == Init /\ [][NextStore]_vars

\* ------------------------------------------------------------ all handlers
\* Every handler of the module served by the same tasks against the same
\* session and store, for the properties that span the three groups.
NextAll == Next \/ NextSettings \/ NextConfig

SpecAll == Init /\ [][NextAll]_vars

\* ================================================================== claims
\* Task p is handed a request in this step.
Dispatched(p) == CanDispatch(p) /\ nreq' = nreq + 1

\* The request of task p carries a payload its conversion rejects.
Malformed(r) ==
  \/ r.op = "sign_in" /\ ~SignInParamsTryFrom(r.payload).ok
  \/ r.op = "sign_up" /\ ~SignUpParamsTryFrom(r.payload).ok
  \/ r.op = "update_user_profile" /\ ~UpdateUserProfileParamsTryFrom(r.payload).ok

\* C1: a sign-in, sign-up or update-profile request whose payload fails its
\* conversion returns the validation error, makes no call on the session and
\* leaves the session (active auth type, active session) as it was.
C1_MalformedNoCalls ==
  [][\A p \in Procs :
       (Dispatched(p) /\ Malformed(req'[p])) =>
         /\ pc'[p] = "done"
         /\ ~result'[p].ok /\ result'[p].val = ValidationError
         /\ calls'[p] = <<>>
         /\ auth_type' = auth_type
         /\ cur_session' = cur_session]_vars

\* C1 witness: a sign-in with a malformed e-mail and a third-party tag has
\* returned the validation error while the session is still Local.
C1_Witness ==
  \E p \in Procs :
    /\ pc[p] = "done" /\ req[p].op = "sign_in"
    /\ req[p].payload = [email |-> <<"@", "x">>, auth_type |-> 2]
    /\ ~result[p].ok /\ result[p].val = ValidationError
    /\ auth_type = <<"Local">>

\* Two requests p, q are sign-ins with valid payloads, one Local and one
\* third-party.
LocalAndThirdPartySignIns(p, q) ==
  /\ p # q
  /\ req[p].op = "sign_in" /\ req[q].op = "sign_in"
  /\ ~Malformed(req[p]) /\ ~Malformed(req[q])
  /\ {req[p].payload.auth_type, req[q].payload.auth_type} = {0, 2}

\* C2: with a Local and a ThirdParty sign-in running against the same
\* session, the active auth type equals the request's own auth type at the
\* moment its sign_in call is issued, in every interleaving.
C2_NoAuthTypeLeak ==
  [][\A p, q \in Procs :
       (LocalAndThirdPartySignIns(p, q) /\ pc[p] = "sign_in_call" /\ pc'[p] = "done")
         => auth_type = AuthTypeFromPB(req[p].payload.auth_type)]_vars

\* The auth type a request's payload selects.
OwnAuthType(r) ==
  CASE r.payload.auth_type = 0 -> <<"Local">>
    [] r.payload.auth_type = 1 -> <<"SelfHosted">>
    [] r.payload.auth_type = 2 -> <<"ThirdParty", "X">>

\* C3: every sign_in / sign_up call of a request comes after a completed
\* update_auth_type call of the same request for the request's auth type.
C3_UpdateBeforeSignIn ==
  \A p \in Procs :
    \A i \in DOMAIN calls[p] :
      calls[p][i].name \in {"sign_in", "sign_up"} =>
        \E j \in 1..(i - 1) :
          /\ calls[p][j].name = "update_auth_type"
          /\ calls[p][j].args = OwnAuthType(req[p])
          /\ calls[p][j].res.ok

\* C3 witness: a sign-up for SelfHosted has made its two calls in order.
C3_Witness ==
  \E p \in Procs :
    /\ pc[p] = "done" /\ req[p].op = "sign_up" /\ Len(calls[p]) = 2
    /\ calls[p][1].name = "update_auth_type" /\ calls[p][1].args = <<"SelfHosted">>
    /\ calls[p][2].name = "sign_up"

\* C4: when a request is abandoned between its update_auth_type and its
\* sign_in / sign_up, the active auth type is what it was before the request
\* started; stated for a run whose only request is the abandoned one, where
\* that is the auth type the session started with.
C4_AbandonLeavesNoTrace ==
  \A p \in Procs :
    (pc[p] = "abandoned" /\ nreq = 1) => auth_type = InitAuthType

\* C5: a third-party-auth request tagged ThirdParty(X) is never rejected by
\* the handler, calls update_auth_type(ThirdParty(X)) first and hands sign_up
\* ThirdParty(X) and the request's own provider map.
C5_ThirdPartyPassThrough ==
  \A p \in Procs :
    (req[p].op = "third_party_auth" /\ req[p].payload.auth_type = 2) =>
      /\ Len(calls[p]) >= 1
      /\ calls[p][1].name = "update_auth_type"
      /\ calls[p][1].args = <<"ThirdParty", "X">>
      /\ pc[p] = "done" =>
           /\ Len(calls[p]) = 2
           /\ calls[p][2].name = "sign_up"
           /\ calls[p][2].args = <<<<"ThirdParty", "X">>, req[p].payload.map>>
           /\ result[p].ok \/ result[p].val = calls[p][2].res.val

\* C5 witness: a ThirdParty(X) request with an empty provider map has gone
\* through both calls.
C5_Witness ==
  \E p \in Procs :
    /\ pc[p] = "done" /\ req[p].op = "third_party_auth"
    /\ req[p].payload = [auth_type |-> 2, map |-> <<>>]
    /\ Len(calls[p]) = 2
    /\ calls[p][2].args = <<<<"ThirdParty", "X">>, <<>>>>

\* C6: get_user_profile_handler invoked while there is no active session
\* returns the no-active-session failure and never calls get_user_profile.
C6_NoSessionNoProfileCall ==
  [][\A p \in Procs :
       (Dispatched(p) /\ req'[p].op = "get_user_profile" /\ cur_session = NoSession) =>
         /\ pc'[p] = "done"
         /\ ~result'[p].ok /\ result'[p].val = NoActiveSessionError
         /\ \A i \in DOMAIN calls'[p] : calls'[p][i].name # "get_user_profile"]_vars

\* C6 witness: a get-profile request made with no active session returned
\* the no-active-session failure after its get_session call alone.
C6_Witness ==
  \E p \in Procs :
    /\ pc[p] = "done" /\ req[p].op = "get_user_profile"
    /\ ~result[p].ok /\ result[p].val = NoActiveSessionError
    /\ Len(calls[p]) = 1 /\ calls[p][1].name = "get_session"
    /\ cur_session = NoSession

\* The texts that are the JSON of a settings record.
WellFormedJson(text) == \E st \in AppearanceSettings : ToJson(st) = text

\* C7: get_appearance_setting never returns an error: nothing stored gives
\* the default record, a text that does not deserialize gives the default
\* record, any other text gives the record it is the JSON of.
C7_GetNeverFails ==
  \A p \in Procs :
    (req[p].op = "get_appearance_setting" /\ pc[p] = "done") =>
      /\ result[p].ok
      /\ loc[p] = None => result[p].val = AppearanceSettingsDefault
      /\ (loc[p] # None /\ ~WellFormedJson(loc[p])) =>
           result[p].val = AppearanceSettingsDefault
      /\ (loc[p] # None /\ WellFormedJson(loc[p])) => ToJson(result[p].val) = loc[p]

\* C7 witness: a get that read the invalid text returned the default record.
C7_Witness ==
  \E p \in Procs :
    /\ req[p].op = "get_appearance_setting" /\ pc[p] = "done"
    /\ loc[p] = InvalidBlob
    /\ result[p].ok /\ result[p].val = AppearanceSettingsDefault

\* Some set_appearance_setting has stored its record.
SetStored == written # {}

\* The record a set is meant to leave in the store.
Expected(setting) ==
  [theme |-> IF setting.theme = "" THEN "light" ELSE setting.theme,
   font |-> setting.font]

\* C8: once a set_appearance_setting has succeeded the stored record has a
\* non-empty theme, and a get that reads what the last set stored returns
\* that set's record with an empty theme replaced by the default theme and
\* everything else unchanged.
C8_ThemeNormalized ==
  /\ SetStored => (WellFormedJson(kv) /\ kv[3] # "")
  /\ \A p \in Procs :
       (/\ req[p].op = "get_appearance_setting" /\ pc[p] = "done"
        /\ SetStored /\ loc[p] = kv) =>
         /\ result[p].ok
         /\ result[p].val = Expected(lastSet)
         /\ result[p].val.theme # ""

\* C8 witness: a set with an empty theme was stored and a following get
\* returned the default theme with the set's font.
C8_Witness ==
  \E p \in Procs :
    /\ req[p].op = "get_appearance_setting" /\ pc[p] = "done"
    /\ SetStored /\ lastSet = [theme |-> "", font |-> "Arial"]
    /\ loc[p] = kv
    /\ result[p].val = [theme |-> "light", font |-> "Arial"]

\* C9: when no set is in flight the store holds exactly the record of the
\* set whose store came last, and every get returns a complete record: the
\* default or the record of one of the sets, never a mixture of two.
C9_SetsSerialized ==
  /\ (SetStored /\ \A p \in Procs : pc[p] # "set_object") =>
       (WellFormedJson(kv) /\ kv = ToJson(Expected(lastSet)))
  /\ \A p \in Procs :
       (req[p].op = "get_appearance_setting" /\ pc[p] = "done") =>
         /\ result[p].ok
         /\ result[p].val \in {AppearanceSettingsDefault} \cup {Expected(w) : w \in written}

\* C9 witness: two different sets were stored, all requests are complete,
\* and a get that overlapped the second set returned the first set's record.
C9_Witness ==
  \E p \in Procs :
    /\ \A q \in Procs : pc[q] = "done"
    /\ Cardinality(written) = 2
    /\ req[p].op = "get_appearance_setting"
    /\ result[p].val # Expected(lastSet)
    /\ result[p].val \in {Expected(w) : w \in written}
    /\ result[p].val.font # lastSet.font /\ result[p].val.theme # Expected(lastSet).theme

\* The session calls that can fail.
Fallible ==
  {"sign_in", "sign_up", "init_user", "check_user", "get_session",
   "get_user_profile", "sign_out", "update_user_profile", "user_setting"}

\* C10: a request calls each session operation at most once, and a failed
\* session call is the request's last call and its error is what the handler
\* returns.
C10_NoRetryPassThrough ==
  \A p \in Procs :
    /\ \A i, j \in DOMAIN calls[p] : calls[p][i].name = calls[p][j].name => i = j
    /\ \A i \in DOMAIN calls[p] :
         (calls[p][i].name \in Fallible /\ ~calls[p][i].res.ok) =>
           /\ i = Len(calls[p])
           /\ pc[p] = "done"
           /\ ~result[p].ok /\ result[p].val = calls[p][i].res.val

\* C10 witness: a sign-in whose credentials were rejected returned AuthError
\* after exactly one sign_in call.
C10_Witness ==
  \E p \in Procs :
    /\ pc[p] = "done" /\ req[p].op = "sign_in" /\ Len(calls[p]) = 2
    /\ ~calls[p][2].res.ok /\ calls[p][2].res.val = "AuthError"
    /\ ~result[p].ok /\ result[p].val = "AuthError"

\* C11: set_supabase_config_handler returns the conversion's error and saves
\* nothing (stored configuration unchanged) when the conversion fails, and on
\* a successful conversion calls save_supabase_config exactly once with the
\* converted configuration and returns success.
C11_SetConfig ==
  [][\A p \in Procs :
       /\ (CanDispatchConfig(p) /\ nreq' = nreq + 1 /\ req'[p].op = "set_supabase_config") =>
            LET pb == req'[p].payload IN
              /\ calls'[p] = <<>>
              /\ supabase_config' = supabase_config
              /\ IF pb.supabase_url = "" \/ pb.key = ""
                   THEN /\ pc'[p] = "done"
                        /\ ~result'[p].ok /\ result'[p].val = ValidationError
                   ELSE pc'[p] = "save_supabase_config"
       /\ (req[p].op = "set_supabase_config" /\ pc[p] # "done" /\ pc'[p] = "done") =>
            LET pb == req[p].payload IN
              /\ pb.supabase_url # "" /\ pb.key # ""
              /\ result'[p].ok
              /\ Len(calls'[p]) = 1
              /\ calls'[p][1].name = "save_supabase_config"
              /\ calls'[p][1].args = [url |-> pb.supabase_url, anon_key |-> pb.key]
              /\ supabase_config' = <<"url", pb.supabase_url, "key", pb.key>>]_vars

\* C11 witness: a configuration was saved and a later request with an empty
\* key was rejected, the saved configuration still stored.
C11_Witness ==
  \E p \in Procs :
    /\ pc[p] = "done" /\ req[p].op = "set_supabase_config"
    /\ req[p].payload = [supabase_url |-> "u2", key |-> ""]
    /\ ~result[p].ok /\ result[p].val = ValidationError
    /\ supabase_config = <<"url", "u1", "key", "k">>

\* The stored texts that are a configuration.
WellFormedConfig(text) ==
  \E pb \in SupabaseConfigPBs : text = <<"url", pb.supabase_url, "key", pb.key>>

\* C12: get_supabase_config_handler never returns an error: an absent or
\* malformed stored configuration gives the default configuration, a stored
\* one gives that configuration.
C12_GetConfigNeverFails ==
  \A p \in Procs :
    (req[p].op = "get_supabase_config" /\ pc[p] = "done") =>
      /\ result[p].ok
      /\ ~WellFormedConfig(loc[p]) => result[p].val = [supabase_url |-> "", key |-> ""]
      /\ WellFormedConfig(loc[p]) =>
           loc[p] = <<"url", result[p].val.supabase_url, "key", result[p].val.key>>

\* C12 witness: a get that found the malformed stored text returned the
\* default configuration.
C12_Witness ==
  \E p \in Procs :
    /\ req[p].op = "get_supabase_config" /\ pc[p] = "done"
    /\ loc[p] = InvalidConfigText
    /\ result[p].ok /\ result[p].val = [supabase_url |-> "", key |-> ""]

\* The set request of task p has returned after the store rejected its write.
StoreRejected(p) ==
  /\ req[p].op = "set_appearance_setting" /\ pc[p] = "done"
  /\ ~calls[p][Len(calls[p])].res.ok

\* C13: when the store rejects the write, set_appearance_setting returns that
\* storage error, the rejected record is not stored, and a get that reads the
\* store afterwards returns what was stored before: the record of the last
\* successful set, or the default when there is none.
C13_RejectedWriteSurfaced ==
  \A p \in Procs :
    StoreRejected(p) =>
      /\ ~result[p].ok /\ result[p].val = calls[p][Len(calls[p])].res.val
      /\ (SetStored /\ \A q \in Procs : pc[q] # "set_object") =>
           kv = ToJson(Expected(lastSet))
      /\ ~SetStored => kv \in {None, InvalidBlob}
      /\ \A q \in Procs :
           (req[q].op = "get_appearance_setting" /\ pc[q] = "done" /\ loc[q] = kv) =>
             /\ result[q].ok
             /\ result[q].val = IF SetStored THEN Expected(lastSet)
                                ELSE AppearanceSettingsDefault

\* C13 witness: a set of (dark, Arial) succeeded, a set of (light, Poppins)
\* was rejected with the storage error, and a get of the store as it stands
\* returned (dark, Arial).
C13_Witness ==
  \E p, q \in Procs :
    /\ StoreRejected(p)
    /\ req[p].payload = [theme |-> "light", font |-> "Poppins"]
    /\ ~result[p].ok /\ result[p].val = "StorageError"
    /\ SetStored /\ written = {[theme |-> "dark", font |-> "Arial"]}
    /\ req[q].op = "get_appearance_setting" /\ pc[q] = "done" /\ loc[q] = kv
    /\ result[q].val = [theme |-> "dark", font |-> "Arial"]

\* C14: with an active session, get_user_profile_handler calls
\* get_user_profile exactly once, with the user id of the session active at
\* that moment and refresh = true, and returns the profile the call gave (or
\* the call's error).
C14_ProfileOfCurrentSession ==
  [][\A p \in Procs :
       (Dispatched(p) /\ req'[p].op = "get_user_profile" /\ cur_session # NoSession) =>
         /\ pc'[p] = "done"
         /\ Len(calls'[p]) = 2
         /\ calls'[p][1].name = "get_session" /\ calls'[p][1].res.ok
         /\ calls'[p][2].name = "get_user_profile"
         /\ calls'[p][2].args = <<cur_session, TRUE>>
         /\ result'[p].ok = calls'[p][2].res.ok
         /\ result'[p].ok =>
              /\ result'[p].val.id = cur_session
              /\ result'[p].val.id = calls'[p][2].res.val.id
              /\ result'[p].val.auth_type \in AuthTypePBs]_vars

\* C14 witness: after a third-party sign-up made "b" the active user, a
\* get-profile returned the profile of "b".
C14_Witness ==
  \E p \in Procs :
    /\ pc[p] = "done" /\ req[p].op = "get_user_profile"
    /\ cur_session = "b"
    /\ Len(calls[p]) = 2 /\ calls[p][2].args = <<"b", TRUE>>
    /\ result[p].ok /\ result[p].val.id = "b"

\* C15: the auth type passed to every sign_in and sign_up call is the one
\* carried by the payload of the request that makes the call, in every
\* interleaving and whatever the shared active auth type is by then.
C15_CallCarriesOwnAuthType ==
  \A p \in Procs :
    \A i \in 1..Len(calls[p]) :
      /\ calls[p][i].name = "sign_in" => calls[p][i].args[2] = OwnAuthType(req[p])
      /\ calls[p][i].name = "sign_up" => calls[p][i].args[1] = OwnAuthType(req[p])

\* C15 witness: a Local sign-in made its call with Local although a
\* concurrent third-party request had already switched the active auth type.
C15_Witness ==
  \E p, q \in Procs :
    /\ req[p].op = "sign_in" /\ pc[p] = "done" /\ Len(calls[p]) = 2
    /\ calls[p][2].name = "sign_in" /\ calls[p][2].args[2] = <<"Local">>
    /\ req[q].op = "third_party_auth" /\ pc[q] = "third_party_call"
    /\ auth_type = <<"ThirdParty", "X">>

\* The auth type selected by the payload tag of the latest update_auth_type.
LastUpdatedAuthType ==
  CASE lastUpdate.tag = 0 -> <<"Local">>
    [] lastUpdate.tag = 1 -> <<"SelfHosted">>
    [] lastUpdate.tag = 2 -> <<"ThirdParty", "X">>

\* Task p returns from its sign_in / sign_up call with the call's error.
SessionCallFailed(p) ==
  /\ pc[p] \in {"sign_in_call", "sign_up_call", "third_party_call"}
  /\ pc'[p] = "done"
  /\ ~result'[p].ok

UpdatingOps == {"sign_in", "sign_up", "third_party_auth"}

\* Task p takes a step: it is handed a request (the lowest free slot gets
\* it) or its handler moves on.
Handed(p) ==
  /\ Free(p)
  /\ \A q \in Procs : q < p => ~Free(q)
  /\ nreq' = nreq + 1
StepOf(p) == Handed(p) \/ pc'[p] # pc[p]

\* C17: a step of a handler other than sign_in, sign_up and
\* third_party_auth_handler leaves the active auth type unchanged and makes
\* no update_auth_type call; the active auth type changes only in a step
\* that hands a request to one of these three.
C17_OnlySignInsUpdateAuthType ==
  [][/\ \A p \in Procs :
          (StepOf(p) /\ req'[p].op \notin UpdatingOps) =>
            /\ auth_type' = auth_type
            /\ \A i \in 1..Len(calls'[p]) : calls'[p][i].name # "update_auth_type"
     /\ auth_type' # auth_type =>
           \E p \in Procs : Handed(p) /\ req'[p].op \in UpdatingOps]_vars

\* C17 witness: after a SelfHosted sign-up, a sign-out and a supabase-config
\* read have completed and the active auth type is still SelfHosted.
C17_Witness ==
  /\ auth_type = <<"SelfHosted">>
  /\ \E p, q \in Procs :
       /\ req[p].op = "sign_out" /\ pc[p] = "done" /\ result[p].ok
       /\ req[q].op = "get_supabase_config" /\ pc[q] = "done"

\* The requests served by the two read handlers.
ReadOps == {"get_appearance_setting", "get_supabase_config"}

\* Task p finishes parsing the text its get_appearance_setting read.
Parsed(p) == pc[p] = "from_str" /\ pc'[p] = "done"

\* C18: no step of get_appearance_setting or get_supabase_config_handler
\* writes the stored settings text or the stored configuration, and neither
\* makes a store call; as long as no set_appearance_setting has succeeded
\* the text under the key stays what it was, so a get that finds the invalid
\* text still stored returns the default record and leaves the text invalid.
C18_ReadsDoNotWrite ==
  [][/\ \A p \in Procs :
          (StepOf(p) /\ req'[p].op \in ReadOps) =>
            /\ kv' = kv
            /\ supabase_config' = supabase_config
            /\ calls'[p] = <<>>
     /\ written' = {} => kv' = kv
     /\ \A p \in Procs :
          (Parsed(p) /\ written = {} /\ kv = InvalidBlob) =>
            /\ result'[p].ok
            /\ result'[p].val = AppearanceSettingsDefault
            /\ kv' = InvalidBlob]_vars

\* C18 witness: more requests than task slots were served, no set has
\* succeeded, two reads of the invalid text have both returned the default
\* record, and the invalid text is still stored.
C18_Witness ==
  /\ nreq > NProcs
  /\ written = {} /\ kv = InvalidBlob
  /\ \A p \in Procs :
       /\ req[p].op = "get_appearance_setting" /\ pc[p] = "done"
       /\ loc[p] = InvalidBlob
       /\ result[p].ok /\ result[p].val = AppearanceSettingsDefault

=============================================================================
